---- MODULE Spec2Model ----
(***************************************************************************)
(* Model of scripts/income.py: the fetch -> transform -> write pipeline    *)
(* that turns the Census B19001 table into per-state income records.       *)
(*                                                                         *)
(* Representation.                                                         *)
(*   - A field value (a Python str coming from the API) is a sequence of   *)
(*     one-character strings, so that int() and the JSON string escape     *)
(*     can be modelled character by character.                             *)
(*   - Header names, group labels and regions are only compared for        *)
(*     equality and are TLA+ strings.                                      *)
(*   - A pct (a Python float that is a multiple of 0.001) is a record      *)
(*     [neg, mag]: its sign bit and its magnitude in thousandths.          *)
(*   - A text file is the sequence of its lines, i.e. the text split on    *)
(*     "\n": a text that ends with a newline has "" as its last line.      *)
(***************************************************************************)
EXTENDS Integers, Sequences, FiniteSets, TLC

VARIABLES pc, response, census_data, records, error, dir_exists, file,
          stdout, trace, dir0, file0

vars == <<pc, response, census_data, records, error, dir_exists, file,
          stdout, trace, dir0, file0>>

(***************************************************************************)
(* Static tables                                                           *)
(***************************************************************************)

\* typing.get_args(IncomeGroup): the order used by the sort key.
IncomeGroup ==
    << "<10000",
       "10000 to 14999",
       "15000 to 24999",
       "25000 to 34999",
       "35000 to 49999",
       "75000 to 99999",
       "50000 to 74999",
       "100000 to 149999",
       "150000 to 199999",
       "200000+" >>

\* INCOME_MAPPING.items() in insertion order.  is_dict distinguishes the
\* plain string entry ("total") from the dict entries; has_sum_vars is
\* '"sum_vars" in mapping'.
INCOME_MAPPING ==
    << [code_str |-> "B19001_001E", is_dict |-> FALSE, group |-> "total",
        has_sum_vars |-> FALSE, sum_vars |-> << >>],
       [code_str |-> "B19001_002E", is_dict |-> TRUE, group |-> "<10000",
        has_sum_vars |-> FALSE, sum_vars |-> << >>],
       [code_str |-> "B19001_003E", is_dict |-> TRUE, group |-> "10000 to 14999",
        has_sum_vars |-> FALSE, sum_vars |-> << >>],
       [code_str |-> "B19001_004E,B19001_005E", is_dict |-> TRUE,
        group |-> "15000 to 24999", has_sum_vars |-> TRUE,
        sum_vars |-> <<"B19001_004E", "B19001_005E">>],
       [code_str |-> "B19001_006E,B19001_007E", is_dict |-> TRUE,
        group |-> "25000 to 34999", has_sum_vars |-> TRUE,
        sum_vars |-> <<"B19001_006E", "B19001_007E">>],
       [code_str |-> "B19001_008E,B19001_009E,B19001_010E", is_dict |-> TRUE,
        group |-> "35000 to 49999", has_sum_vars |-> TRUE,
        sum_vars |-> <<"B19001_008E", "B19001_009E", "B19001_010E">>],
       [code_str |-> "B19001_011E,B19001_012E", is_dict |-> TRUE,
        group |-> "50000 to 74999", has_sum_vars |-> TRUE,
        sum_vars |-> <<"B19001_011E", "B19001_012E">>],
       [code_str |-> "B19001_013E", is_dict |-> TRUE, group |-> "75000 to 99999",
        has_sum_vars |-> FALSE, sum_vars |-> << >>],
       [code_str |-> "B19001_014E,B19001_015E", is_dict |-> TRUE,
        group |-> "100000 to 149999", has_sum_vars |-> TRUE,
        sum_vars |-> <<"B19001_014E", "B19001_015E">>],
       [code_str |-> "B19001_016E", is_dict |-> TRUE, group |-> "150000 to 199999",
        has_sum_vars |-> FALSE, sum_vars |-> << >>],
       [code_str |-> "B19001_017E", is_dict |-> TRUE, group |-> "200000+",
        has_sum_vars |-> FALSE, sum_vars |-> << >>] >>

REGION_MAPPING ==
    ("01" :> "south") @@ ("02" :> "west") @@ ("04" :> "west") @@
    ("05" :> "south") @@ ("06" :> "west") @@ ("08" :> "west") @@
    ("09" :> "northeast") @@ ("10" :> "south") @@ ("11" :> "south") @@
    ("12" :> "south") @@ ("13" :> "south") @@ ("15" :> "west") @@
    ("16" :> "west") @@ ("17" :> "midwest") @@ ("18" :> "midwest") @@
    ("19" :> "midwest") @@ ("20" :> "midwest") @@ ("21" :> "south") @@
    ("22" :> "south") @@ ("23" :> "northeast") @@ ("24" :> "south") @@
    ("25" :> "northeast") @@ ("26" :> "midwest") @@ ("27" :> "midwest") @@
    ("28" :> "south") @@ ("29" :> "midwest") @@ ("30" :> "west") @@
    ("31" :> "midwest") @@ ("32" :> "west") @@ ("33" :> "northeast") @@
    ("34" :> "northeast") @@ ("35" :> "west") @@ ("36" :> "northeast") @@
    ("37" :> "south") @@ ("38" :> "midwest") @@ ("39" :> "midwest") @@
    ("40" :> "south") @@ ("41" :> "west") @@ ("42" :> "northeast") @@
    ("44" :> "northeast") @@ ("45" :> "south") @@ ("46" :> "midwest") @@
    ("47" :> "south") @@ ("48" :> "south") @@ ("49" :> "west") @@
    ("50" :> "northeast") @@ ("51" :> "south") @@ ("53" :> "west") @@
    ("54" :> "south") @@ ("55" :> "midwest") @@ ("56" :> "west") @@
    ("72" :> "other")

(***************************************************************************)
(* Exceptions, named by the Python exception and the call that raises it   *)
(***************************************************************************)
NoError == "none"
HTTPError == "HTTPError: raise_for_status"
JSONDecodeError == "JSONDecodeError: response.json"
InvalidFormatError == "ValueError: Invalid API response format"
ZipStrictError == "ValueError: zip() arguments differ in length"
IntLiteralError == "ValueError: invalid literal for int()"
KeyError == "KeyError"
ZeroDivisionError == "ZeroDivisionError"
OSError == "OSError"
FileNotFoundError == "FileNotFoundError"

(***************************************************************************)
(* str helpers                                                             *)
(***************************************************************************)
RECURSIVE Str(_)
\* The TLA+ string spelled by a sequence of characters.
Str(cs) == IF cs = << >> THEN "" ELSE Head(cs) \o Str(Tail(cs))

DecimalDigits == <<"0", "1", "2", "3", "4", "5", "6", "7", "8", "9">>

IsDigit(c) == \E i \in 1..10 : DecimalDigits[i] = c

DigitVal(c) == (CHOOSE i \in 1..10 : DecimalDigits[i] = c) - 1

IsSpace(c) == c \in {" ", "\t", "\n", "\r"}

RECURSIVE LStrip(_)
LStrip(cs) == IF cs # << >> /\ IsSpace(Head(cs)) THEN LStrip(Tail(cs)) ELSE cs

RECURSIVE RStrip(_)
RStrip(cs) ==
    IF cs # << >> /\ IsSpace(cs[Len(cs)])
    THEN RStrip(SubSeq(cs, 1, Len(cs) - 1))
    ELSE cs

RECURSIVE DigitsValue(_, _)
\* Value of a digit string with underscores already validated; acc is the
\* value of the digits consumed so far.
DigitsValue(cs, acc) ==
    IF cs = << >> THEN acc
    ELSE IF Head(cs) = "_" THEN DigitsValue(Tail(cs), acc)
    ELSE DigitsValue(Tail(cs), 10 * acc + DigitVal(Head(cs)))

\* Python's base-10 integer literal body: digits, with single underscores
\* allowed only between two digits.
ValidDigits(cs) ==
    /\ cs # << >>
    /\ \A i \in 1..Len(cs) : IsDigit(cs[i]) \/ cs[i] = "_"
    /\ IsDigit(cs[1])
    /\ IsDigit(cs[Len(cs)])
    /\ \A i \in 1..(Len(cs) - 1) : ~(cs[i] = "_" /\ cs[i + 1] = "_")

\* int(s) for a str s: surrounding whitespace is stripped, one optional
\* sign is accepted, the rest must be a valid digit string.
ParseInt(cs) ==
    LET s == RStrip(LStrip(cs))
        signed == s # << >> /\ Head(s) \in {"+", "-"}
        body == IF signed THEN Tail(s) ELSE s
    IN  IF ValidDigits(body)
        THEN [ok |-> TRUE,
              val |-> IF signed /\ Head(s) = "-"
                      THEN 0 - DigitsValue(body, 0)
                      ELSE DigitsValue(body, 0)]
        ELSE [ok |-> FALSE, val |-> 0]

(***************************************************************************)
(* float helpers                                                           *)
(***************************************************************************)
Abs(n) == IF n < 0 THEN 0 - n ELSE n

\* Mutant of Round3: the quotient is cut after the third decimal instead
\* of rounded.
Round3_Truncating(count, total) ==
    [neg |-> (count < 0 /\ total > 0) \/ (count >= 0 /\ total < 0),
     mag |-> (Abs(count) * 1000) \div Abs(total)]

\* round(count / total, 3) for total # 0.  The quotient of two ints is the
\* double nearest to the exact rational and round() rounds the decimal
\* expansion of that double half-to-even.  A decimal tie count/total =
\* k/2000 (k odd) has a reduced denominator that is a multiple of 16, and
\* is an exact double when that denominator is 16; every tie with
\* |total| < 80 is of that kind, and away from a tie the double's error is
\* far below the distance to the tie.  So for |total| < 80 the result is
\* the half-to-even rounding of the exact rational, computed here.  The
\* sign is the sign bit of the double (0 / -5 and round(-0.0001, 3) are
\* both -0.0).
Round3(count, total) ==
    LET n == Abs(count) * 1000
        d == Abs(total)
        q == n \div d
        r == n % d
        up == (2 * r > d) \/ (2 * r = d /\ q % 2 = 1)
    IN  [neg |-> (count < 0 /\ total > 0) \/ (count >= 0 /\ total < 0),
         mag |-> IF up THEN q + 1 ELSE q]

\* repr() of a pct, as json.dumps writes it: the shortest decimal that
\* reads back as the double, which for a multiple of 0.001 below 1e16 is
\* the thousandths with trailing zeros dropped and at least one decimal.
FloatRepr(p) ==
    LET whole == p.mag \div 1000
        frac == p.mag % 1000
        d1 == frac \div 100
        d2 == (frac \div 10) % 10
        d3 == frac % 10
        decimals == IF d3 # 0 THEN ToString(d1) \o ToString(d2) \o ToString(d3)
                    ELSE IF d2 # 0 THEN ToString(d1) \o ToString(d2)
                    ELSE ToString(d1)
    IN  (IF p.neg THEN "-" ELSE "") \o ToString(whole) \o "." \o decimals

\* The float value of a pct in thousandths (-0.0 is 0).
Thousandths(p) == IF p.neg THEN 0 - p.mag ELSE p.mag

(***************************************************************************)
(* process_state_records                                                   *)
(***************************************************************************)

\* Mutant of ZipStrict: zip without strict=True, which stops at the shorter
\* argument and never raises.
ZipTruncating(header, row) ==
    LET n == IF Len(header) < Len(row) THEN Len(header) ELSE Len(row)
    IN  [ok |-> TRUE, keys |-> SubSeq(header, 1, n), values |-> SubSeq(row, 1, n)]

\* dict(zip(header, row, strict=True)): None when the lengths differ.
\* The dict is kept as the pair of sequences; a later duplicate of a key
\* overwrites an earlier one, so a lookup reads the last position.
ZipStrict(header, row) ==
    IF Len(header) = Len(row)
    THEN [ok |-> TRUE, keys |-> header, values |-> row]
    ELSE [ok |-> FALSE, keys |-> << >>, values |-> << >>]

HasKey(state_data, k) ==
    \E i \in 1..Len(state_data.keys) : state_data.keys[i] = k

\* state_data[k], for a key that is present.
GetItem(state_data, k) ==
    LET last == CHOOSE i \in 1..Len(state_data.keys) :
                    /\ state_data.keys[i] = k
                    /\ \A j \in (i + 1)..Len(state_data.keys) :
                           state_data.keys[j] # k
    IN  state_data.values[last]

\* int(state_data[k]): the value, or the exception raised.
IntField(state_data, k) ==
    IF ~HasKey(state_data, k) THEN [err |-> KeyError, val |-> 0]
    ELSE LET r == ParseInt(GetItem(state_data, k))
         IN  IF r.ok THEN [err |-> NoError, val |-> r.val]
             ELSE [err |-> IntLiteralError, val |-> 0]

RECURSIVE SumVars(_, _, _)
\* sum(int(state_data[var]) for var in sum_vars): left to right, the first
\* exception ends the sum.
SumVars(state_data, sum_vars, acc) ==
    IF sum_vars = << >> THEN [err |-> NoError, val |-> acc]
    ELSE LET r == IntField(state_data, Head(sum_vars))
         IN  IF r.err # NoError THEN r
             ELSE SumVars(state_data, Tail(sum_vars), acc + r.val)

\* Lines 201-205: the count of one dict entry of INCOME_MAPPING.
Count(state_data, mapping) ==
    IF mapping.has_sum_vars
    THEN SumVars(state_data, mapping.sum_vars, 0)
    ELSE IntField(state_data, mapping.code_str)

\* Lines 207-214: the StateIncome of one entry; the keyword arguments are
\* evaluated in the order written (name, region, id, pct, total, group).
MakeRecord(state_data, state_fips, total, count, group) ==
    IF ~HasKey(state_data, "NAME") THEN [err |-> KeyError, rec |-> << >>]
    ELSE IF total = 0 THEN [err |-> ZeroDivisionError, rec |-> << >>]
    ELSE [err |-> NoError,
          rec |-> << [name |-> GetItem(state_data, "NAME"),
                      region |-> REGION_MAPPING[Str(state_fips)],
                      id |-> ParseInt(state_fips).val,
                      pct |-> Round3(count, total),
                      total |-> total,
                      group |-> group] >>]

\* Mutant of Emits: entries with sum_vars are passed over as well.
Emits_SingleFieldOnly(mapping) == mapping.is_dict /\ ~mapping.has_sum_vars

\* Line 200: only dict entries emit a record.
Emits(mapping) == mapping.is_dict

\* Lines 201-214 for one dict entry: the count is resolved first, then the
\* record is built from it.
RecordOfCount(state_data, state_fips, total, group, c) ==
    IF c.err # NoError THEN [err |-> c.err, rec |-> << >>]
    ELSE MakeRecord(state_data, state_fips, total, c.val, group)

EntryRecord(state_data, state_fips, total, mapping) ==
    RecordOfCount(state_data, state_fips, total, mapping.group,
                  Count(state_data, mapping))

\* records.append(record) followed by the rest of the loop: an exception
\* raised for this entry ends the loop before the rest is run.
AppendThen(m, rest) ==
    IF m.err # NoError THEN [err |-> m.err, recs |-> << >>]
    ELSE IF rest.err # NoError THEN rest
    ELSE [err |-> NoError, recs |-> m.rec \o rest.recs]

RECURSIVE MappingLoop(_, _, _, _)
\* Lines 199-215 from entry number k on: the records appended for one row,
\* in the order of INCOME_MAPPING, or the first exception.
MappingLoop(state_data, state_fips, total, k) ==
    IF k > Len(INCOME_MAPPING) THEN [err |-> NoError, recs |-> << >>]
    ELSE IF ~Emits(INCOME_MAPPING[k])
    THEN MappingLoop(state_data, state_fips, total, k + 1)
    ELSE AppendThen(EntryRecord(state_data, state_fips, total, INCOME_MAPPING[k]),
                    MappingLoop(state_data, state_fips, total, k + 1))

\* Mutant of InRegionMapping: any numeric state code is accepted.
InRegionMapping_AnyNumber(state_fips) == ParseInt(state_fips).ok

\* Line 194.
InRegionMapping(state_fips) == Str(state_fips) \in DOMAIN REGION_MAPPING

\* Lines 197-215: the total is parsed, then the mapping loop runs.
RowRecords(state_data, state_fips, t) ==
    IF t.err # NoError THEN [err |-> t.err, recs |-> << >>]
    ELSE MappingLoop(state_data, state_fips, t.val, 1)

\* Lines 190-215: one iteration of the row loop.  skip is the 'continue'.
ProcessRow(header, row) ==
    LET z == ZipStrict(header, row)
    IN  IF ~z.ok THEN [err |-> ZipStrictError, recs |-> << >>]
        ELSE IF ~HasKey(z, "state") THEN [err |-> KeyError, recs |-> << >>]
        ELSE LET state_fips == GetItem(z, "state")
             IN  IF ~InRegionMapping(state_fips)
                 THEN [err |-> NoError, recs |-> << >>]
                 ELSE RowRecords(z, state_fips, IntField(z, "B19001_001E"))

\* One iteration followed by the remaining ones: an exception raised for
\* this row ends the loop before the later rows are looked at.
ExtendThen(r, rest) ==
    IF r.err # NoError THEN [err |-> r.err, recs |-> << >>]
    ELSE IF rest.err # NoError THEN rest
    ELSE [err |-> NoError, recs |-> r.recs \o rest.recs]

RECURSIVE RowLoop(_, _)
\* Lines 189-215: rows in arrival order; the first exception propagates and
\* nothing is returned.
RowLoop(header, data) ==
    IF data = << >> THEN [err |-> NoError, recs |-> << >>]
    ELSE ExtendThen(ProcessRow(header, Head(data)), RowLoop(header, Tail(data)))

\* order.index(group), 0-based.
OrderIndex(order, group) ==
    (CHOOSE i \in 1..Len(order) : order[i] = group) - 1

\* Mutants of by_state_income_group: a key of the state id alone, and a key
\* of the group index alone.
by_state_only(record) == <<record.id, 0>>
by_group_only(record) == <<0, OrderIndex(IncomeGroup, record.group)>>

\* by_state_income_group(IncomeGroup): the key (id, index of the group).
by_state_income_group(record) ==
    <<record.id, OrderIndex(IncomeGroup, record.group)>>

\* Tuple comparison k1 < k2.
KeyLess(k1, k2) == k1[1] < k2[1] \/ (k1[1] = k2[1] /\ k1[2] < k2[2])

RECURSIVE InsertSorted(_, _)
\* Insert r after every element whose key is not greater (stable).
InsertSorted(sorted, r) ==
    IF sorted = << >> THEN <<r>>
    ELSE IF KeyLess(by_state_income_group(r), by_state_income_group(Head(sorted)))
         THEN <<r>> \o sorted
         ELSE <<Head(sorted)>> \o InsertSorted(Tail(sorted), r)

RECURSIVE SortedFrom(_, _)
SortedFrom(recs, acc) ==
    IF recs = << >> THEN acc
    ELSE SortedFrom(Tail(recs), InsertSorted(acc, Head(recs)))

\* sorted(records, key=...): a stable sort, ascending by key.
Sorted(recs) == SortedFrom(recs, << >>)

\* Line 217: the list is sorted once the loop has ended without exception.
SortedResult(r) ==
    IF r.err # NoError THEN [err |-> r.err, recs |-> << >>]
    ELSE [err |-> NoError, recs |-> Sorted(r.recs)]

\* process_state_records(census_data): the list returned, or the exception.
process_state_records(cd) == SortedResult(RowLoop(cd.header, cd.data))

(***************************************************************************)
(* get_census_data                                                         *)
(***************************************************************************)

\* Mutant of RaisesForStatus: only server errors raise.
RaisesForServerError(status) == 500 <= status /\ status < 600

\* response.raise_for_status(): an HTTPError for a 4xx or a 5xx status.
RaisesForStatus(status) == 400 <= status /\ status < 600

\* The parsed body: kind "invalid" is a body that is not JSON (json()
\* raises), "null" is JSON null, "array" is a JSON array with its items.
\* 'not data or len(data) < 2'.
InvalidFormat(body) == body.kind = "null" \/ Len(body.items) < 2

\* get_census_data() on the HTTP response received.
get_census_data(resp) ==
    IF RaisesForStatus(resp.status)
    THEN [err |-> HTTPError, cd |-> [header |-> << >>, data |-> << >>]]
    ELSE IF resp.body.kind = "invalid"
    THEN [err |-> JSONDecodeError, cd |-> [header |-> << >>, data |-> << >>]]
    ELSE IF InvalidFormat(resp.body)
    THEN [err |-> InvalidFormatError, cd |-> [header |-> << >>, data |-> << >>]]
    ELSE [err |-> NoError,
          cd |-> [header |-> resp.body.items[1], data |-> Tail(resp.body.items)]]

(***************************************************************************)
(* write_json                                                              *)
(***************************************************************************)

\* json.dumps of a str character: the two-character escapes of '"', '\'
\* and the named control characters (the inputs are ASCII).
EscapeChar(c) ==
    CASE c = "\"" -> "\\\""
      [] c = "\\" -> "\\\\"
      [] c = "\n" -> "\\n"
      [] c = "\r" -> "\\r"
      [] c = "\t" -> "\\t"
      [] OTHER -> c

RECURSIVE Escaped(_)
Escaped(cs) == IF cs = << >> THEN "" ELSE EscapeChar(Head(cs)) \o Escaped(Tail(cs))

\* json.dumps of a str given as characters.
JsonStr(cs) == "\"" \o Escaped(cs) \o "\""

\* json.dumps of a str given as a TLA+ string without special characters
\* (a region or a group label).
JsonLabel(s) == "\"" \o s \o "\""

\* json.dumps(record, indent=2) inside a list: the lines of one object, in
\* the dict's insertion order; last tells whether a comma follows.
DumpRecord(r, last) ==
    << "  {",
       "    \"name\": " \o JsonStr(r.name) \o ",",
       "    \"region\": " \o JsonLabel(r.region) \o ",",
       "    \"id\": " \o ToString(r.id) \o ",",
       "    \"pct\": " \o FloatRepr(r.pct) \o ",",
       "    \"total\": " \o ToString(r.total) \o ",",
       "    \"group\": " \o JsonLabel(r.group),
       IF last THEN "  }" ELSE "  }," >>

RECURSIVE DumpItems(_)
DumpItems(recs) ==
    IF recs = << >> THEN << >>
    ELSE DumpRecord(Head(recs), Len(recs) = 1) \o DumpItems(Tail(recs))

\* json.dumps(data, indent=2), as lines: "[]" for an empty list.
Dumps(data) ==
    IF data = << >> THEN << "[]" >>
    ELSE << "[" >> \o DumpItems(data) \o << "]" >>

NoFile == [exists |-> FALSE, lines |-> << >>]

\* Mutant of WrittenText: a newline is appended to the text.
WrittenText_TrailingNewline(data) == Dumps(data) \o << "" >>

\* The text actually written by output.write_text(text, newline="\n"): the
\* text itself, "\n" left untranslated and nothing appended.
WrittenText(data) == Dumps(data)

\* write_json(data, output) on a file system where the parent directory of
\* output exists or not and output holds f.  io is what the operating
\* system does: "ok", "open_fails" (e.g. no permission) or "write_fails"
\* (e.g. disk full, after open() truncated the file).
write_json(data, parent_exists, f, io) ==
    IF ~parent_exists THEN [err |-> FileNotFoundError, file |-> f]
    ELSE IF io = "open_fails" THEN [err |-> OSError, file |-> f]
    ELSE IF io = "write_fails"
    THEN [err |-> OSError, file |-> [exists |-> TRUE, lines |-> << "" >>]]
    ELSE [err |-> NoError, file |-> [exists |-> TRUE, lines |-> WrittenText(data)]]

(***************************************************************************)
(* Inputs: the responses the API may send and the file systems a run may   *)
(* start from                                                              *)
(***************************************************************************)

\* The largest number of data rows in a response.
MaxRows == 2

\* The columns of the response, as the API names them.
Header ==
    << "state", "NAME", "B19001_001E", "B19001_002E", "B19001_003E",
       "B19001_004E", "B19001_005E", "B19001_006E", "B19001_007E",
       "B19001_008E", "B19001_009E", "B19001_010E", "B19001_011E",
       "B19001_012E", "B19001_013E", "B19001_014E", "B19001_015E",
       "B19001_016E", "B19001_017E" >>

\* A header without the estimate column of the last bracket (its
\* annotation column stands in its place).
HeaderNo017 == [i \in 1..Len(Header) |->
                   IF Header[i] = "B19001_017E" THEN "B19001_017EA" ELSE Header[i]]

Headers == {Header, HeaderNo017}

\* The characters of a non-negative number below 100, as the API prints it.
Chars(n) ==
    IF n < 10 THEN << DecimalDigits[n + 1] >>
    ELSE << DecimalDigits[(n \div 10) + 1], DecimalDigits[(n % 10) + 1] >>

\* A data row in the column order of Header: state, name, total and the
\* sixteen raw bracket fields, all as character strings.
Row(state, name, total, fields) == << state, name, total >> \o fields

Numbers(counts) == [i \in 1..Len(counts) |-> Chars(counts[i])]

\* Sixteen households: shares of 1/16 and 3/16 are exact decimal ties.
CountsA == << 1, 3, 1, 1, 1, 1, 1, 0, 1, 1, 1, 1, 1, 1, 1, 0 >>
\* Seven households.
CountsB == << 1, 0, 1, 0, 0, 1, 0, 0, 1, 1, 0, 1, 0, 1, 0, 0 >>

RowAlabama == Row(<<"0", "1">>, <<"A", "l", "a">>, Chars(16), Numbers(CountsA))
RowAlaska == Row(<<"0", "2">>, <<"A", "k">>, Chars(7), Numbers(CountsB))
\* A second row for state 01, with other data.
RowAlabamaAgain == Row(<<"0", "1">>, <<"A", "l", "2">>, Chars(7), Numbers(CountsB))
\* A territory outside REGION_MAPPING whose counts are not numbers.
RowGuam == Row(<<"6", "6">>, <<"G", "u">>, <<"0">>, [i \in 1..16 |-> <<"N", "/", "A">>])
\* A state whose total is zero.
RowZeroTotal == Row(<<"0", "4">>, <<"A", "z">>, <<"0">>, Numbers(CountsB))
\* A state with a count that is not an integer literal.
RowBadCount ==
    Row(<<"0", "5">>, <<"A", "r">>, Chars(16),
        [i \in 1..16 |-> IF i = 4 THEN <<"1", ".", "5">> ELSE Chars(CountsA[i])])
\* Rows shorter and longer than the header.
RowShort == SubSeq(RowAlabama, 1, Len(RowAlabama) - 1)
RowLong == Append(RowGuam, <<"x">>)
\* Integer literals int() accepts beyond plain digits (blanks, signs,
\* underscores), a negative count, and a name that JSON must escape.
RowPuertoRico ==
    Row(<<"7", "2">>, <<"P", "\"", "R", "\\">>, <<" ", "1", "0", "\n">>,
        << <<"+", "2">>, <<"-", "1">>, <<"0", "_", "1">>, <<"0">>, <<"1">>,
           <<"0">>, <<"0">>, <<"2">>, <<"0">>, <<"1">>, <<"0">>, <<"3">>,
           <<"0">>, <<"0">>, <<"1">>, <<"0">> >>)

RowPool == { RowAlabama, RowAlaska, RowAlabamaAgain, RowGuam, RowZeroTotal,
             RowBadCount, RowShort, RowLong, RowPuertoRico }

\* The sequences of at most MaxRows rows of the pool.
RowSeqs == UNION { [1..n -> RowPool] : n \in 0..MaxRows }

\* The bodies a response may carry.
Bodies ==
    { [kind |-> "invalid", items |-> << >>], [kind |-> "null", items |-> << >>],
      [kind |-> "array", items |-> << >>] }
    \cup { [kind |-> "array", items |-> << h >> \o d] : h \in Headers, d \in RowSeqs }

StatusCodes == { 200, 304, 404, 503 }

\* The output file before the run: its parent directory and its content.
OldFile == [exists |-> TRUE, lines |-> << "[]", "" >>]
FileSystems == { [dir |-> FALSE, file |-> NoFile], [dir |-> TRUE, file |-> NoFile],
                 [dir |-> TRUE, file |-> OldFile] }

(***************************************************************************)
(* main                                                                    *)
(***************************************************************************)
NoResponse == [status |-> 0, body |-> [kind |-> "invalid", items |-> << >>]]
NoData == [header |-> << >>, data |-> << >>]

Init ==
    /\ pc = "start"
    /\ response = NoResponse
    /\ census_data = NoData
    /\ records = << >>
    /\ error = NoError
    /\ \E fs \in FileSystems :
           /\ dir_exists = fs.dir /\ dir0 = fs.dir
           /\ file = fs.file /\ file0 = fs.file
    /\ stdout = << >>
    /\ trace = << >>

\* Line 227: census_data = get_census_data().
Fetch ==
    /\ pc = "start"
    /\ \E status \in StatusCodes, body \in Bodies :
           \E r \in { get_census_data([status |-> status, body |-> body]) } :
               /\ response' = [status |-> status, body |-> body]
               /\ IF r.err # NoError
                  THEN /\ pc' = "aborted" /\ error' = r.err
                       /\ UNCHANGED census_data
                  ELSE /\ pc' = "fetched" /\ census_data' = r.cd
                       /\ UNCHANGED error
    /\ trace' = Append(trace, "fetch")
    /\ UNCHANGED <<records, dir_exists, file, stdout, dir0, file0>>

\* Mutant of Transform: an exception of process_state_records is swallowed
\* and the run goes on with no records.
Transform_SwallowsError ==
    /\ pc = "fetched"
    /\ \E r \in { process_state_records(census_data) } :
           /\ pc' = "transformed" /\ records' = r.recs
           /\ stdout' = Append(stdout, "Found " \o ToString(Len(r.recs))
                                       \o " state-income group combinations")
           /\ UNCHANGED error
    /\ trace' = Append(trace, "transform")
    /\ UNCHANGED <<response, census_data, dir_exists, file, dir0, file0>>

\* Lines 228-229: records = process_state_records(census_data); print.
Transform ==
    /\ pc = "fetched"
    /\ \E r \in { process_state_records(census_data) } :
           IF r.err # NoError
           THEN /\ pc' = "aborted" /\ error' = r.err
                /\ UNCHANGED <<records, stdout>>
           ELSE /\ pc' = "transformed" /\ records' = r.recs
                /\ stdout' = Append(stdout, "Found " \o ToString(Len(r.recs))
                                            \o " state-income group combinations")
                /\ UNCHANGED error
    /\ trace' = Append(trace, "transform")
    /\ UNCHANGED <<response, census_data, dir_exists, file, dir0, file0>>

\* Line 231: OUTPUT_FILE.parent.mkdir(parents=True, exist_ok=True); the
\* operating system may refuse to create a missing directory.
Mkdir ==
    /\ pc = "transformed"
    /\ \E io \in {"ok", "fails"} :
           IF dir_exists \/ io = "ok"
           THEN /\ pc' = "dir_ready" /\ dir_exists' = TRUE
                /\ UNCHANGED error
           ELSE /\ pc' = "aborted" /\ error' = OSError
                /\ UNCHANGED dir_exists
    /\ trace' = Append(trace, "mkdir")
    /\ UNCHANGED <<response, census_data, records, file, stdout, dir0, file0>>

\* Lines 232-233: write_json(records, OUTPUT_FILE); print.
Write ==
    /\ pc = "dir_ready"
    /\ \E io \in {"ok", "open_fails", "write_fails"} :
           \E r \in { write_json(records, dir_exists, file, io) } :
               /\ file' = r.file
               /\ IF r.err # NoError
                  THEN /\ pc' = "aborted" /\ error' = r.err
                       /\ UNCHANGED stdout
                  ELSE /\ pc' = "done"
                       /\ stdout' = Append(stdout, "Data written to data/income.json")
                       /\ UNCHANGED error
    /\ trace' = Append(trace, "write")
    /\ UNCHANGED <<response, census_data, records, dir_exists, dir0, file0>>

Next == Fetch \/ Transform \/ Mkdir \/ Write

Spec == Init /\ [][Next]_vars

(***************************************************************************)
(* write_json called on its own, on any file system                        *)
(***************************************************************************)

\* The record lists process_state_records returns on the inputs above.
RecordLists ==
    { process_state_records([header |-> Header, data |-> d]).recs : d \in RowSeqs }

InitWrite ==
    /\ pc = "call_write_json"
    /\ response = NoResponse
    /\ census_data = NoData
    /\ records \in RecordLists
    /\ error = NoError
    /\ \E fs \in FileSystems \cup { [dir |-> TRUE, file |-> [exists |-> TRUE, lines |-> Dumps(rl)]] :
                                        rl \in RecordLists } :
           /\ dir_exists = fs.dir /\ dir0 = fs.dir
           /\ file = fs.file /\ file0 = fs.file
    /\ stdout = << >>
    /\ trace = << >>

\* Lines 220-222: one call of write_json(records, output).
WriteJsonCall ==
    /\ pc = "call_write_json"
    /\ \E io \in {"ok", "open_fails", "write_fails"} :
           \E r \in { write_json(records, dir_exists, file, io) } :
               /\ file' = r.file
               /\ error' = r.err
               /\ pc' = IF r.err # NoError THEN "raised" ELSE "returned"
    /\ trace' = Append(trace, "write")
    /\ UNCHANGED <<response, census_data, records, dir_exists, stdout, dir0, file0>>

NextWrite == WriteJsonCall

SpecWrite == InitWrite /\ [][NextWrite]_vars

(***************************************************************************)
(* Vocabulary of the properties                                            *)
(***************************************************************************)

\* process_state_records has just been called: the state after line 228.
TransformRan == Len(trace) = 2

\* What that call produced: the exception it raised, or the list returned.
TransformRaised == TransformRan /\ pc = "aborted" /\ Len(trace) = 2
Out == [err |-> IF TransformRaised THEN error ELSE NoError, recs |-> records]

\* The value of column name in a row as long as the header.
Field(header, row, name) == GetItem([keys |-> header, values |-> row], name)
HasColumn(header, name) == \E i \in 1..Len(header) : header[i] = name

RawFields ==
    { "B19001_002E", "B19001_003E", "B19001_004E", "B19001_005E", "B19001_006E",
      "B19001_007E", "B19001_008E", "B19001_009E", "B19001_010E", "B19001_011E",
      "B19001_012E", "B19001_013E", "B19001_014E", "B19001_015E", "B19001_016E",
      "B19001_017E" }
ColumnsRead == RawFields \cup { "state", "NAME", "B19001_001E" }

\* The row has the header's length and its 'state' is a key of REGION_MAPPING.
InTable(header, row) ==
    /\ Len(row) = Len(header)
    /\ HasColumn(header, "state")
    /\ Str(Field(header, row, "state")) \in DOMAIN REGION_MAPPING

\* The row has the header's length but its 'state' is no key of REGION_MAPPING.
OutOfTable(header, row) ==
    /\ Len(row) = Len(header)
    /\ HasColumn(header, "state")
    /\ Str(Field(header, row, "state")) \notin DOMAIN REGION_MAPPING

\* An in-table row the inner loop can process: every column it reads is
\* there, every count is an integer literal and the total is not zero.
Processable(header, row) ==
    /\ \A c \in ColumnsRead : HasColumn(header, c)
    /\ \A c \in RawFields \cup { "B19001_001E" } : ParseInt(Field(header, row, c)).ok
    /\ ParseInt(Field(header, row, "B19001_001E")).val # 0

\* A valid census response: every row has the header's length and every
\* row that is not skipped is processable.
ValidResponse(cd) ==
    /\ HasColumn(cd.header, "state")
    /\ \A i \in 1..Len(cd.data) :
           /\ Len(cd.data[i]) = Len(cd.header)
           /\ InTable(cd.header, cd.data[i]) => Processable(cd.header, cd.data[i])

InTableRows(cd) == { i \in 1..Len(cd.data) : InTable(cd.header, cd.data[i]) }

\* The number an in-table state code stands for (two digits).
StateId(cs) == 10 * DigitVal(cs[1]) + DigitVal(cs[2])
RowId(cd, i) == StateId(Field(cd.header, cd.data[i], "state"))

\* The data rows that carry a given state id.
RowsOfId(cd, id) == { i \in InTableRows(cd) : RowId(cd, i) = id }

\* The ten groups of the dict entries of INCOME_MAPPING.
TenGroups ==
    { "<10000", "10000 to 14999", "15000 to 24999", "25000 to 34999",
      "35000 to 49999", "50000 to 74999", "75000 to 99999", "100000 to 149999",
      "150000 to 199999", "200000+" }

\* The records of one state id, and their groups, in output order.
OfId(recs, id) == SelectSeq(recs, LAMBDA r : r.id = id)
GroupsOfId(recs, id) == [k \in 1..Len(OfId(recs, id)) |-> OfId(recs, id)[k].group]
Ids(recs) == { recs[k].id : k \in 1..Len(recs) }

cd_without(cd, i) ==
    [header |-> cd.header,
     data |-> SubSeq(cd.data, 1, i - 1) \o SubSeq(cd.data, i + 1, Len(cd.data))]

(***************************************************************************)
(* C1                                                                      *)
(***************************************************************************)

\* C1: for every valid census response process_state_records returns
\* exactly 10 x N records, N the number of data rows whose state is a key
\* of REGION_MAPPING; each such row contributes one record per income
\* group, and the "total" entry of INCOME_MAPPING contributes none.
C1_TenRecordsPerState ==
    (TransformRan /\ ValidResponse(census_data)) =>
        /\ Out.err = NoError
        /\ Len(records) = 10 * Cardinality(InTableRows(census_data))
        /\ \A k \in 1..Len(records) : records[k].group \in TenGroups
        /\ \A i \in InTableRows(census_data) : \A g \in TenGroups :
               Cardinality({ k \in 1..Len(records) :
                               /\ records[k].id = RowId(census_data, i)
                               /\ records[k].group = g })
               = Cardinality(RowsOfId(census_data, RowId(census_data, i)))

\* A valid response of two rows, one skipped and one kept.
C1_Witness ==
    /\ TransformRan /\ ValidResponse(census_data)
    /\ Len(census_data.data) = 2
    /\ Cardinality(InTableRows(census_data)) = 1
    /\ Len(records) = 10

(***************************************************************************)
(* C2                                                                      *)
(***************************************************************************)

\* Position of a group in the IncomeGroup order.
Position(g) == CHOOSE p \in 1..Len(IncomeGroup) : IncomeGroup[p] = g

SortedByIdThenPosition(recs) ==
    \A i, j \in 1..Len(recs) :
        i < j =>
            \/ recs[i].id < recs[j].id
            \/ /\ recs[i].id = recs[j].id
               /\ Position(recs[i].group) <= Position(recs[j].group)

GroupsCanonical(recs) ==
    \A k \in 1..Len(recs) : \E p \in 1..Len(IncomeGroup) : IncomeGroup[p] = recs[k].group

\* C2 as stated: the output is sorted ascending by (id, position of group
\* in IncomeGroup), every group is one of the ten, and for any state id
\* the groups of its records, in output order, are exactly IncomeGroup.
C2_AsStated ==
    (TransformRan /\ Out.err = NoError) =>
        /\ GroupsCanonical(records)
        /\ SortedByIdThenPosition(records)
        /\ \A id \in Ids(records) : GroupsOfId(records, id) = IncomeGroup

\* C2 (amended): the output is sorted ascending by (id, position of group
\* in IncomeGroup), every group is one of the ten, and for any state id
\* carried by exactly one in-table data row the groups of its records, in
\* output order, are exactly IncomeGroup.
C2_SortedByIdAndGroup ==
    (TransformRan /\ Out.err = NoError) =>
        /\ GroupsCanonical(records)
        /\ SortedByIdThenPosition(records)
        /\ \A id \in Ids(records) :
               Cardinality(RowsOfId(census_data, id)) = 1 =>
                   GroupsOfId(records, id) = IncomeGroup

\* Two states arriving in descending id order have been sorted.
C2_Witness ==
    /\ TransformRan /\ Out.err = NoError
    /\ Len(records) = 20
    /\ Cardinality(InTableRows(census_data)) = 2
    /\ RowId(census_data, 1) > RowId(census_data, 2)
    /\ records[1].id < records[20].id

(***************************************************************************)
(* C3                                                                      *)
(***************************************************************************)

\* The lowest income of a bracket, in dollars.
LowIncome(g) ==
    CASE g = "<10000" -> 0
      [] g = "10000 to 14999" -> 10000
      [] g = "15000 to 24999" -> 15000
      [] g = "25000 to 34999" -> 25000
      [] g = "35000 to 49999" -> 35000
      [] g = "50000 to 74999" -> 50000
      [] g = "75000 to 99999" -> 75000
      [] g = "100000 to 149999" -> 100000
      [] g = "150000 to 199999" -> 150000
      [] g = "200000+" -> 200000

\* C3: the records are grouped by state and, within a state, a record
\* whose bracket has a lower income range precedes every record of that
\* state whose bracket has a higher one ("50000 to 74999" before
\* "75000 to 99999").
C3_LowToHighIncome ==
    (TransformRan /\ Out.err = NoError) =>
        /\ \A i, j, k \in 1..Len(records) :
               (i < j /\ j < k /\ records[i].id = records[k].id) =>
                   records[j].id = records[i].id
        /\ \A i, j \in 1..Len(records) :
               (/\ records[i].id = records[j].id
                /\ LowIncome(records[i].group) < LowIncome(records[j].group)) => i < j

(***************************************************************************)
(* C4                                                                      *)
(***************************************************************************)

\* C4: a data row of the header's length whose 'state' is not a key of
\* REGION_MAPPING yields no record and no error, whatever its other
\* fields hold: the outcome of process_state_records is the outcome for
\* the same response with that row removed.
C4_UnknownStateSkipped ==
    TransformRan =>
        \A i \in 1..Len(census_data.data) :
            OutOfTable(census_data.header, census_data.data[i]) =>
                process_state_records(cd_without(census_data, i)) = Out

\* A territory row with non-numeric counts and a zero total was skipped
\* next to a state that produced its ten records.
C4_Witness ==
    /\ TransformRan /\ Out.err = NoError /\ Len(records) = 10
    /\ \E i \in 1..Len(census_data.data) :
           /\ OutOfTable(census_data.header, census_data.data[i])
           /\ ~ParseInt(Field(census_data.header, census_data.data[i], "B19001_002E")).ok
           /\ ParseInt(Field(census_data.header, census_data.data[i], "B19001_001E")).val = 0

(***************************************************************************)
(* C5                                                                      *)
(***************************************************************************)
MalformedRows(cd) == { i \in 1..Len(cd.data) : Len(cd.data[i]) # Len(cd.header) }

FirstMalformed(cd) == CHOOSE i \in MalformedRows(cd) : \A j \in MalformedRows(cd) : i <= j

\* C5 as stated: if any data row's length differs from the header's
\* (shorter or longer, anywhere in the response, in the table or not),
\* process_state_records raises MalformedRowError (the ValueError of the
\* strict zip) and returns no records, and the run is aborted.
C5_AsStated ==
    (TransformRan /\ MalformedRows(census_data) # {}) =>
        /\ Out.err = ZipStrictError
        /\ records = << >>
        /\ pc = "aborted"

\* C5 (amended): if any data row's length differs from the header's,
\* process_state_records raises and returns no records, and the run is
\* aborted with no later stage run; the exception is MalformedRowError
\* when no row before the first such row raises, that is when every
\* in-table row before it is processable.
C5_MalformedRowAborts ==
    (TransformRan /\ MalformedRows(census_data) # {}) =>
        /\ Out.err # NoError
        /\ records = << >>
        /\ pc = "aborted" /\ trace = << "fetch", "transform" >>
        /\ file = file0 /\ dir_exists = dir0
        /\ (\A j \in 1..(FirstMalformed(census_data) - 1) :
                InTable(census_data.header, census_data.data[j]) =>
                    Processable(census_data.header, census_data.data[j]))
           => Out.err = ZipStrictError

\* A row longer than the header, with a state outside the table, came
\* second after a processable row and ended the run with the zip error.
C5_Witness ==
    /\ TransformRan /\ Len(census_data.data) = 2
    /\ InTable(census_data.header, census_data.data[1])
    /\ Processable(census_data.header, census_data.data[1])
    /\ Len(census_data.data[2]) > Len(census_data.header)
    /\ Str(census_data.data[2][1]) \notin DOMAIN REGION_MAPPING
    /\ pc = "aborted" /\ error = ZipStrictError

(***************************************************************************)
(* C6                                                                      *)
(***************************************************************************)
FetchRan == Len(trace) >= 1
FetchRaised == FetchRan /\ pc = "aborted" /\ Len(trace) = 1

BodyUnusable(body) ==
    body.kind \in { "invalid", "null" } \/ Len(body.items) < 2

FetchReturned(resp) ==
    /\ ~FetchRaised
    /\ census_data.header = resp.body.items[1]
    /\ Len(census_data.data) = Len(resp.body.items) - 1
    /\ \A i \in 1..Len(census_data.data) : census_data.data[i] = resp.body.items[i + 1]

\* C6 as stated: get_census_data fails when the HTTP status is not 2xx, or
\* when the parsed body is missing, empty or has fewer than two entries;
\* in every other case it returns the first entry as the header and the
\* following entries, in order, as the data rows.
C6_AsStated ==
    FetchRan =>
        IF ~(200 <= response.status /\ response.status <= 299)
           \/ BodyUnusable(response.body)
        THEN FetchRaised /\ error \in { HTTPError, JSONDecodeError, InvalidFormatError }
        ELSE FetchReturned(response)

\* C6 (amended): get_census_data fails when the HTTP status is 4xx or
\* 5xx, or when the body is not JSON, is empty or has fewer than two
\* entries; in every other case (a status below 400 with an array of at
\* least two entries) it returns the first entry as the header and the
\* following entries, in order, as the data rows.
C6_FetchContract ==
    FetchRan =>
        IF (400 <= response.status /\ response.status <= 599)
           \/ BodyUnusable(response.body)
        THEN FetchRaised /\ error \in { HTTPError, JSONDecodeError, InvalidFormatError }
        ELSE FetchReturned(response)

\* A 304 response that carries a header and two rows was accepted.
C6_Witness ==
    /\ FetchRan /\ ~FetchRaised
    /\ response.status = 304
    /\ Len(census_data.data) = 2
    /\ census_data.data[1] # census_data.data[2]

(***************************************************************************)
(* C7                                                                      *)
(***************************************************************************)
Stages == << "fetch", "transform", "mkdir", "write" >>

\* C7: a run of main executes fetch, transform, write in that order and
\* retries nothing; when fetch or transform fails no later stage runs and
\* the output file and its directory are as they were before the run; the
\* file is written at most once, and only after fetch and transform have
\* both succeeded.
C7_StraightLinePipeline ==
    /\ Len(trace) <= Len(Stages)
    /\ \A k \in 1..Len(trace) : trace[k] = Stages[k]
    /\ (FetchRan /\ get_census_data(response).err # NoError) =>
           /\ pc = "aborted" /\ Len(trace) = 1
           /\ file = file0 /\ dir_exists = dir0
    /\ (Len(trace) >= 2 /\ process_state_records(census_data).err # NoError) =>
           /\ pc = "aborted" /\ Len(trace) = 2
           /\ file = file0 /\ dir_exists = dir0
    /\ (file # file0 \/ dir_exists # dir0) =>
           /\ Len(trace) >= 3
           /\ get_census_data(response).err = NoError
           /\ census_data = get_census_data(response).cd
           /\ process_state_records(census_data).err = NoError
    /\ file # file0 => trace = Stages
    /\ pc = "done" => trace = Stages

\* A run whose transform failed on a zero total, over an existing file.
C7_Witness ==
    /\ TransformRaised /\ error = ZeroDivisionError
    /\ file0.exists /\ file = file0

(***************************************************************************)
(* C8                                                                      *)
(***************************************************************************)
RowOrders(n) == { f \in [1..n -> 1..n] : \A i, j \in 1..n : f[i] = f[j] => i = j }

Permuted(cd, f) == [header |-> cd.header, data |-> [i \in 1..Len(cd.data) |-> cd.data[f[i]]]]

\* C8 as stated: for any valid response and any permutation of its data
\* rows, process_state_records returns the same sequence of records.
C8_AsStated ==
    (TransformRan /\ ValidResponse(census_data)) =>
        \A f \in RowOrders(Len(census_data.data)) :
            process_state_records(Permuted(census_data, f)) = Out

\* Data rows that carry the same in-table state code are the same row.
OneRowPerState(cd) ==
    \A i, j \in InTableRows(cd) : RowId(cd, i) = RowId(cd, j) => cd.data[i] = cd.data[j]

\* C8 (amended): for any valid response in which rows that carry the same
\* in-table state code are identical (in particular when every state
\* occurs once) and any permutation of its data rows, process_state_records
\* returns the same sequence of records.
C8_RowOrderIrrelevant ==
    (TransformRan /\ ValidResponse(census_data) /\ OneRowPerState(census_data)) =>
        \A f \in RowOrders(Len(census_data.data)) :
            process_state_records(Permuted(census_data, f)) = Out

\* Two different states arrived in descending order of id.
C8_Witness ==
    /\ TransformRan /\ ValidResponse(census_data) /\ OneRowPerState(census_data)
    /\ Len(records) = 20
    /\ RowId(census_data, 1) > RowId(census_data, 2)

(***************************************************************************)
(* C9                                                                      *)
(***************************************************************************)
RECURSIVE SumOf(_)
SumOf(ns) == IF ns = << >> THEN 0 ELSE Head(ns) + SumOf(Tail(ns))

RawValue(header, row, c) == ParseInt(Field(header, row, c)).val

\* The raw fields that make up a bracket: its sum_vars, or its single field.
BracketFields(g) ==
    LET m == INCOME_MAPPING[CHOOSE k \in 1..Len(INCOME_MAPPING) :
                                INCOME_MAPPING[k].is_dict /\ INCOME_MAPPING[k].group = g]
    IN  IF m.has_sum_vars THEN m.sum_vars ELSE << m.code_str >>

BracketCount(header, row, g) ==
    SumOf([k \in 1..Len(BracketFields(g)) |-> RawValue(header, row, BracketFields(g)[k])])

AllRawFields ==
    << "B19001_002E", "B19001_003E", "B19001_004E", "B19001_005E", "B19001_006E",
       "B19001_007E", "B19001_008E", "B19001_009E", "B19001_010E", "B19001_011E",
       "B19001_012E", "B19001_013E", "B19001_014E", "B19001_015E", "B19001_016E",
       "B19001_017E" >>

\* An in-table row whose raw bracket counts are non-negative integers that
\* sum to its total, a positive number.
CountsSumToTotal(header, row) ==
    /\ InTable(header, row) /\ Processable(header, row)
    /\ \A c \in RawFields : RawValue(header, row, c) >= 0
    /\ RawValue(header, row, "B19001_001E") > 0
    /\ SumOf([k \in 1..16 |-> RawValue(header, row, AllRawFields[k])])
           = RawValue(header, row, "B19001_001E")

WriteJsonReturned == pc = "returned"
WriteJsonCalled == pc \in { "returned", "raised" }

\* C10 as stated: after write_json(records, path) succeeds the file holds
\* the 2-space-indented JSON of records followed by one trailing newline,
\* whatever it held before, and the call creates the missing parent
\* directories of path.
C10_AsStated ==
    /\ WriteJsonReturned =>
           file = [exists |-> TRUE, lines |-> Dumps(records) \o << "" >>]
    /\ (WriteJsonCalled /\ ~dir0 /\ error \in { NoError, FileNotFoundError }) =>
           WriteJsonReturned /\ dir_exists

\* C10 (amended): after write_json(records, path) succeeds the file holds
\* exactly the 2-space-indented JSON of records, with no trailing
\* newline, whatever it held before; the call creates no directory: when
\* the parent directory of path is missing it raises FileNotFoundError
\* and leaves the file system as it was.
C10_WriteJsonContract ==
    /\ WriteJsonReturned =>
           /\ file = [exists |-> TRUE, lines |-> Dumps(records)]
           /\ file.lines[Len(file.lines)] \in { "[]", "]" }
           /\ dir0
    /\ WriteJsonCalled => dir_exists = dir0
    /\ (WriteJsonCalled /\ ~dir0) =>
           /\ pc = "raised" /\ error = FileNotFoundError
           /\ file = file0

\* Twenty records overwrote a file that held something else.
C10_Witness ==
    /\ WriteJsonReturned
    /\ Len(records) = 20
    /\ file0.exists /\ file0 # file
    /\ Len(file.lines) = 162
====
